---- MODULE Spec2Model ----
(***************************************************************************)
(* Model of Autoparam::Driver (autoparamDriverSup/src/autoparamDriver.cpp): *)
(* the registry of device variables (m_params), the per-type handler maps, *)
(* the function-to-type map and the interrupt reference counts, together   *)
(* with the driver-supplied parser and materializer of the test driver     *)
(* (autoparamTestApp/src/autoparamTest.cpp).                                *)
(*                                                                         *)
(* Every asyn entry point is one atomic action: asynPortDriver runs them   *)
(* under the port lock, so threads interleave whole calls.                 *)
(* Character strings are tuples of one-character strings, so that the      *)
(* stream extraction of drvUserCreate and of the parser is computed.       *)
(***************************************************************************)
EXTENDS Integers, Sequences, FiniteSets, TLC

(* ------------------------------ bounds --------------------------------- *)

\* Largest number of asyn parameters created through createParam.
MaxParams == 2

\* Largest interrupt reference count a native registration is offered at.
MaxRefs == 2

\* Largest buffer a caller hands to readOctet.
MaxSize == 4

(* ----------------------------- constants ------------------------------- *)

NULL == "NULL"

asynSuccess == "asynSuccess"

asynError == "asynError"

asynTimeout == "asynTimeout"

asynParamInt32 == "asynParamInt32"

asynParamFloat64 == "asynParamFloat64"

asynParamUInt32Digital == "asynParamUInt32Digital"

\* ProcessInterrupts::ValueType.
OFF == "OFF"

ON == "ON"

DEFAULT == "DEFAULT"

ProcessInterruptsValues == {OFF, ON, DEFAULT}

\* ResultBase(): alarmStatus(epicsAlarmNone), alarmSeverity(epicsSevNone).
NoAlarm == [alarmStatus |-> "epicsAlarmNone", alarmSeverity |-> "epicsSevNone"]

\* The alarm pair a handler sets to invalidate a record (erroredRead).
SoftInvalid ==
    [alarmStatus |-> "epicsAlarmSoft", alarmSeverity |-> "epicsSevInvalid"]

Alarms == {NoAlarm, SoftInvalid}

\* Values a handler returns or a record writes.
Values == {1, 2}

\* Stands for the value of an asyn parameter that was never set, and of an
\* output argument the call did not assign; no handler returns it.
Undefined == -1

\* The interfaces (template instances) the model exercises.
Types == {asynParamInt32, asynParamFloat64}

\* The interfaces with the digital one, whose registerInterruptUser takes a
\* mask.
InterfaceTypes == Types \union {asynParamUInt32Digital}

\* The masks a digital subscriber asks for.
Masks == {1, 3}

\* Statuses a native call or a user callback may return.
Statuses == {asynSuccess, asynError, asynTimeout}

\* What a scalar read handler may return: Result<T>.
ReadResults ==
    [status : Statuses, alarm : Alarms,
     processInterrupts : ProcessInterruptsValues, value : Values]

\* What a write handler may return: WriteResult.
WriteResults ==
    [status : Statuses, alarm : Alarms,
     processInterrupts : ProcessInterruptsValues]

\* Function names the derived driver registers handlers for.
FunctionNames == {<<"F">>, <<"G">>}

\* Handler triples (reader, writer, interrupt registrar) a derived driver
\* passes to registerHandlers; the shapes are those of the test driver.
HandlerSets ==
    { [readHandler |-> "rd1", writeHandler |-> NULL,  intrRegistrar |-> "reg"],
      [readHandler |-> "rd2", writeHandler |-> "wr1", intrRegistrar |-> NULL],
      [readHandler |-> NULL,  writeHandler |-> NULL,  intrRegistrar |-> NULL] }

\* Raw reason strings records present to drvUserCreate.
RawReasons ==
    { <<"F", " ", "1">>,
      <<"F", " ", " ", "1">>,
      <<"F", " ", "2">>,
      <<"F", " ", "{", "1">>,
      <<"G">>,
      <<" ">> }

\* The reason strings of the records that switch to and from I/O Intr
\* scanning: one per registered function.
RecordReasons == {<<"F", " ", "1">>, <<"G">>}

\* Values of pasynUser->reason a caller may present: every index a parameter
\* can have and one that none has.
Handles == 0 .. MaxParams

\* The null DeviceVariable* that deviceVariableFromUser returns for a reason
\* without a variable; variables are identified by their asyn index.
NullVar == -1

\* What parseDeviceAddress returns when it cannot parse.
NullAddress == [valid |-> FALSE, function |-> <<>>, arguments |-> <<>>]

(* --------------------------- string helpers ---------------------------- *)

isspace(c) == c = " "

\* Drop leading whitespace (operator>> skips it; so does the ignore loop).
RECURSIVE SkipSpace(_)
SkipSpace(s) ==
    IF s # <<>> /\ isspace(Head(s)) THEN SkipSpace(Tail(s)) ELSE s

\* The longest prefix without whitespace.
RECURSIVE TakeWord(_)
TakeWord(s) ==
    IF s = <<>> \/ isspace(Head(s)) THEN <<>>
    ELSE <<Head(s)>> \o TakeWord(Tail(s))

\* What is left after the prefix without whitespace.
RECURSIVE DropWord(_)
DropWord(s) ==
    IF s = <<>> \/ isspace(Head(s)) THEN s ELSE DropWord(Tail(s))

\* `is >> function`: the first whitespace-separated word, <<>> if none.
ExtractFunction(reason) == TakeWord(SkipSpace(reason))

\* The rest of the stream after the function and the whitespace following
\* it, taken verbatim (inner and trailing whitespace is kept).
ExtractArguments(reason) == SkipSpace(DropWord(SkipSpace(reason)))

\* `while (is >> arg) arguments.push_back(arg)`.
RECURSIVE SplitArguments(_)
SplitArguments(s) ==
    LET t == SkipSpace(s)
    IN IF t = <<>> THEN <<>>
       ELSE <<TakeWord(t)>> \o SplitArguments(DropWord(t))

(* ------------------------- driver-supplied hooks ----------------------- *)

\* AutoparamTest::parseDeviceAddress: never fails.
MyParseDeviceAddress(function, arguments) ==
    [valid |-> TRUE, function |-> function,
     arguments |-> SplitArguments(arguments)]

\* A parser that refuses an argument starting with '{' or '[' by returning
\* a null address, as the textual channel syntax reserves them.
StrictParseDeviceAddress(function, arguments) ==
    LET args == SplitArguments(arguments)
    IN IF \E i \in 1 .. Len(args) : Head(args[i]) \in {"{", "["}
       THEN NullAddress
       ELSE [valid |-> TRUE, function |-> function, arguments |-> args]

\* MyAddress::operator==.
AddressEquals(a, b) ==
    a.function = b.function /\ a.arguments = b.arguments

(* ------------------------------- state --------------------------------- *)

VARIABLES
    parser,             \* which parseDeviceAddress the derived driver overrides
    opts,               \* DriverOpts the driver was constructed with
    functionTypes,      \* m_functionTypes: function name -> asynParamType
    handlerMap,         \* m_<Type>HandlerMap: type -> (function name -> Handlers)
    paramList,          \* asynPortDriver's parameters: <<[name, type, value, alarm]>>
    params,             \* m_params: asyn index -> DeviceVariable
    interruptRefcount,  \* m_interruptRefcount: DeviceVariable* -> int
    intrState,          \* per variable, direction of the registrar's last call
    crashed,            \* the process dereferenced a null DeviceVariable*
    underflowed,        \* variables whose count was clamped since they were
                        \* last subscribed to
    snapshot,           \* a getAllVariables call in progress on another thread
    destroyed,          \* ~Driver has run
    deleted,            \* the DeviceVariable pointers ~Driver deleted, in order
    repeated,           \* history: the registerHandlers call that ran last was
                        \* made with the arguments of the call before it
    addresses,          \* the DeviceAddress objects of the stored variables:
                        \* who holds a pointer to each, how often it was freed
    arrayRef,           \* the Octet view of the readOctetData call in progress
    last                \* the call that ran last: its arguments and results

vars ==
    <<parser, opts, functionTypes, handlerMap, paramList, params,
      interruptRefcount, intrState, crashed, underflowed, snapshot,
      destroyed, deleted, repeated, addresses, arrayRef, last>>

\* No DeviceAddress object: parseDeviceAddress was not called or returned
\* NULL.
NoAddress == [holders |-> {}, frees |-> -1]

\* No readOctetData call is in progress.
NoView ==
    [pc |-> "idle", maxSize |-> 0, size |-> 0, data |-> <<>>, outside |-> {},
     nRead |-> 0]

\* The shape of `last`; a call fills the fields it has and leaves the rest.
\*   op       entry point
\*   raw      drvUserCreate: the reason string; registerHandlers: the function
\*   type     the interface (template argument T) of the call
\*   handle   pasynUser->reason on entry
\*   var      what deviceVariableFromUser returned
\*   native   status of the interface's original (native) registrar
\*   before   m_interruptRefcount[var] on entry
\*   status   the status returned
\*   cb       how the interrupt registrar was called, "none" if it was not
\*   cbStatus the status the interrupt registrar returned
\*   reason   pasynUser->reason on return
\*   invoked  the read or write handlers the call invoked, in order
\*   result   what the handler returned
\*   written  write: the value argument
\*   out      read: *value on return
\*   notified callParamCallbacks was called
\*   alarm    pasynUser->alarmStatus and alarmSeverity on return
\*   created  drvUserCreate: the index of the variable the call stored in
\*            m_params, NullVar if it stored none
\*   steps    registerInterrupt, cancelInterrupt: what the call did, in order
\*   clamped  registerInterrupt, cancelInterrupt: on entry, the variable's
\*            count was clamped since it was last subscribed to
\*   clients  getInterruptVariables: the interrupt lists it walked
\*   vars     getInterruptVariables: the vector returned
\*   addr     drvUserCreate: the DeviceAddress parseDeviceAddress returned,
\*            as the call leaves it
NoCall ==
    [op |-> "none", raw |-> <<>>, type |-> NULL, handle |-> 0,
     var |-> NullVar, native |-> NULL, before |-> 0, status |-> NULL,
     cb |-> "none", cbStatus |-> NULL, reason |-> 0,
     invoked |-> <<>>, result |-> NULL, written |-> Undefined,
     out |-> Undefined, notified |-> FALSE,
     alarm |-> NoAlarm,
     created |-> NullVar, steps |-> <<>>, clamped |-> FALSE,
     clients |-> <<>>, vars |-> <<>>, addr |-> NoAddress]

\* No getAllVariables call is in progress.
NoSnapshot == [pc |-> "idle", atStart |-> {}, pos |-> NullVar, pvs |-> <<>>]

\* Driver::Driver: empty maps; installInterruptRegistrars has wrapped the
\* native registrars of every interface.
Init ==
    /\ parser \in {"AutoparamTest", "Strict"}
    /\ opts = [autoInterrupts |-> TRUE]
    /\ functionTypes = <<>>
    /\ handlerMap = [t \in Types |-> <<>>]
    /\ paramList = <<>>
    /\ params = <<>>
    /\ interruptRefcount = <<>>
    /\ intrState = <<>>
    /\ crashed = FALSE
    /\ underflowed = {}
    /\ snapshot = NoSnapshot
    /\ destroyed = FALSE
    /\ deleted = <<>>
    /\ repeated = FALSE
    /\ addresses = <<>>
    /\ arrayRef = NoView
    /\ last = NoCall

(* ---------------------------- registration ----------------------------- *)

\* registerHandlers without the guard, as the first revision of the header
\* had it: any registration is accepted.
TypeConflictUnchecked(function, T) == FALSE

\* The guard with the comparison of the types inverted: a registration for
\* the type the function already has is the one refused.
TypeConflictSameType(function, T) ==
    function \in DOMAIN functionTypes /\ functionTypes[function] = T

\* The guard of registerHandlers: the function already has handlers for
\* another type.
TypeConflict(function, T) ==
    function \in DOMAIN functionTypes /\ functionTypes[function] # T

\* A registration that withdraws the handlers a function already has instead
\* of replacing them.
ToggleHandlers(map, function, h) ==
    IF function \in DOMAIN map
    THEN [f \in DOMAIN map \ {function} |-> map[f]]
    ELSE (function :> h) @@ map

\* getHandlerMap<T>()[function]: the three handlers are assigned to the
\* function's entry, which operator[] makes if there is none.
StoreHandlers(map, function, h) == (function :> h) @@ map

\* Driver::registerHandlers<T>. The history variable `repeated` is set by the
\* specification that calls it.
RegisterHandlers(function, T, h) ==
    /\ ~crashed /\ ~destroyed
    /\ IF TypeConflict(function, T)
       THEN UNCHANGED <<handlerMap, functionTypes>>
       ELSE /\ handlerMap' =
                  [handlerMap EXCEPT ![T] = StoreHandlers(@, function, h)]
            /\ functionTypes' = (function :> T) @@ functionTypes
    /\ last' = [NoCall EXCEPT !.op = "registerHandlers", !.raw = function,
                              !.type = T]
    /\ UNCHANGED <<parser, opts, addresses, arrayRef,
                   paramList, params, interruptRefcount,
                   intrState, crashed, underflowed, snapshot, destroyed,
                   deleted>>

(* ------------------------- channel resolution -------------------------- *)

\* The virtual Driver::parseDeviceAddress, as the derived driver overrides it.
parseDeviceAddress(function, arguments) ==
    IF parser = "Strict"
    THEN StrictParseDeviceAddress(function, arguments)
    ELSE MyParseDeviceAddress(function, arguments)

\* drvUserCreate without the null check on the parsed address.
ParseFailedIgnored(addr) == FALSE

\* `addr == NULL` after parseDeviceAddress.
ParseFailed(addr) == ~addr.valid

\* The comparison taken between the function names alone.
cmpDeviceAddressByFunction(x, addr) == x.address.function = addr.function

\* The comparison taken between the pointers instead of the addresses: a
\* freshly parsed address is no stored one.
cmpDeviceAddressByPointer(x, addr) == FALSE

\* cmpDeviceAddress::operator(): x.second->address() == *addr.
cmpDeviceAddress(x, addr) == AddressEquals(x.address, addr)

\* The search skipped: every reason string is taken to name a new variable.
FindVariableNever(addr) == NullVar

\* std::find_if over m_params (ordered by index): the first match, or NULL.
FindVariable(addr) ==
    LET found == {i \in DOMAIN params : cmpDeviceAddress(params[i], addr)}
    IN IF found = {} THEN NullVar
       ELSE CHOOSE i \in found : \A j \in found : i <= j

\* m_functionTypes[function] in place of m_functionTypes.at(function): a
\* missing function gets a value-initialized type and nothing is thrown.
FunctionTypeOrDefault(function) ==
    IF function \in DOMAIN functionTypes
    THEN functionTypes[function]
    ELSE "asynParamTypeUndefined"

\* m_functionTypes.at(function); NULL stands for std::out_of_range thrown.
FunctionTypeAt(function) ==
    IF function \in DOMAIN functionTypes
    THEN functionTypes[function]
    ELSE NULL

\* createParam taken to hand out the first index to every name.
ParamIndexFirst(name) == 0

\* asynPortDriver::createParam: the index of the parameter of that name,
\* which is appended when the list has none.
ParamIndex(name) ==
    IF \E i \in 1 .. Len(paramList) : paramList[i].name = name
    THEN (CHOOSE i \in 1 .. Len(paramList) : paramList[i].name = name) - 1
    ELSE Len(paramList)

createParam(name, type) ==
    IF \E i \in 1 .. Len(paramList) : paramList[i].name = name
    THEN paramList
    ELSE Append(paramList, [name |-> name, type |-> type,
                            value |-> Undefined, alarm |-> NoAlarm])

\* The pointers that hold a DeviceAddress: the local `addr` of drvUserCreate,
\* the m_address of its baseVar, the m_address of a stored variable.
HolderAddr == <<"addr">>

HolderBaseVar == <<"baseVar">>

HolderVar(index) == <<"var", index>>

\* `new` in parseDeviceAddress: the object is held by `addr`, not freed.
NewAddress == [holders |-> {HolderAddr}, frees |-> 0]

\* `delete addr` or `delete m_address` through the pointer `holder`.
DeleteAddress(a, holder) ==
    [a EXCEPT !.holders = @ \ {holder}, !.frees = @ + 1]

\* DeviceVariable::DeviceVariable(reason, function, addr): the variable takes
\* the address over from the caller's pointer.
ConstructBaseVar(a) ==
    [a EXCEPT !.holders = (@ \ {HolderAddr}) \union {HolderBaseVar}]

\* The constructor from another variable without `other->m_address = NULL`.
MoveAddressCopied(a, other, to) == [a EXCEPT !.holders = @ \union {to}]

\* DeviceVariable::DeviceVariable(DeviceVariable *other): m_address is taken
\* from the other variable, whose pointer is nulled.
MoveAddress(a, other, to) ==
    [a EXCEPT !.holders = (@ \ {other}) \union {to}]

\* DeviceVariable::~DeviceVariable of the variable `holder`: the address is
\* deleted if m_address is not NULL.
DestroyVariable(a, holder) ==
    IF holder \in a.holders THEN DeleteAddress(a, holder) ELSE a

\* A failing call that writes an invalid index into pasynUser->reason.
CreateResultInvalidated(reason, r0, status, r1) ==
    [NoCall EXCEPT !.op = "drvUserCreate", !.raw = reason, !.handle = r0,
                   !.status = status,
                   !.reason = IF status = asynSuccess THEN r1 ELSE NullVar]

\* The arguments and results of a drvUserCreate call.
CreateResult(reason, r0, status, r1) ==
    [NoCall EXCEPT !.op = "drvUserCreate", !.raw = reason, !.handle = r0,
                   !.status = status, !.reason = r1]

\* Driver::drvUserCreate. r0 is pasynUser->reason on entry; created tells
\* whether createDeviceVariable returns a variable or NULL.
DrvUserCreate(reason, r0, created) ==
    LET function == ExtractFunction(reason)
        arguments == ExtractArguments(reason)
        addr == parseDeviceAddress(function, arguments)
        varIter == FindVariable(addr)
        type == FunctionTypeAt(function)
        index == ParamIndex(reason)
        var == [reasonString |-> reason, function |-> function,
                asynParamType |-> type, asynParamIndex |-> index,
                address |-> addr]
        baseVar == ConstructBaseVar(NewAddress)
        moved == MoveAddress(baseVar, HolderBaseVar, HolderVar(index))
    IN
    /\ ~crashed /\ ~destroyed
    /\ IF function = <<>> \/ ParseFailed(addr)
       THEN /\ last' = CreateResult(reason, r0, asynError, r0)
            /\ UNCHANGED <<paramList, params, interruptRefcount, intrState,
                           addresses>>
       ELSE IF varIter # NullVar
       THEN /\ last' = [CreateResult(reason, r0, asynSuccess,
                                     params[varIter].asynParamIndex)
                            EXCEPT !.addr = DeleteAddress(NewAddress,
                                                          HolderAddr)]
            /\ UNCHANGED <<paramList, params, interruptRefcount, intrState,
                           addresses>>
       ELSE IF type = NULL
       THEN /\ last' = [CreateResult(reason, r0, asynError, r0)
                            EXCEPT !.addr = DestroyVariable(baseVar,
                                                            HolderBaseVar)]
            /\ UNCHANGED <<paramList, params, interruptRefcount, intrState,
                           addresses>>
       ELSE /\ index < MaxParams
            /\ paramList' = createParam(reason, type)
            /\ IF ~created
               THEN /\ last' = [CreateResult(reason, r0, asynError, r0)
                                    EXCEPT !.addr = DestroyVariable(
                                                        baseVar, HolderBaseVar)]
                    /\ UNCHANGED <<params, interruptRefcount, intrState,
                                   addresses>>
               ELSE /\ params' = (index :> var) @@ params
                    /\ interruptRefcount' = (index :> 0) @@ interruptRefcount
                    /\ intrState' = (index :> "none") @@ intrState
                    /\ addresses' =
                           (index :> DestroyVariable(moved, HolderBaseVar))
                               @@ addresses
                    /\ last' = [CreateResult(reason, r0, asynSuccess, index)
                                    EXCEPT !.created = index,
                                           !.addr = DestroyVariable(
                                                        moved, HolderBaseVar)]
    /\ UNCHANGED <<parser, opts, arrayRef, functionTypes, handlerMap, crashed,
                   underflowed, snapshot, destroyed, deleted, repeated>>

(* ------------------------ interrupt registration ----------------------- *)

\* Driver::deviceVariableFromUser: m_params.at(reason), NULL when absent.
deviceVariableFromUser(reason) ==
    IF reason \in DOMAIN params THEN reason ELSE NullVar

\* Driver::checkHandlersVerbosely<T>: does T's handler map know `function`.
checkHandlersVerbosely(T, function) == function \in DOMAIN handlerMap[T]

\* The count read as if every read made the key anew.
RefcountOfFresh(var) == 0

\* m_interruptRefcount[var] as operator[] reads it: 0 for a missing key.
RefcountOf(var) ==
    IF var \in DOMAIN interruptRefcount THEN interruptRefcount[var] ELSE 0

\* The test of the native status narrowed to asynError: a timeout of the
\* native call passes for success.
NativeFailedOnlyOnError(native) == native = asynError

\* The early return taken out: the count is updated whatever the native
\* call returned.
NativeFailedNever(native) == FALSE

\* `if (status != asynSuccess) return status;` after the native call.
NativeFailed(native) == native # asynSuccess

\* The registrar's status dropped: the call returns the native status.
StatusAfterRegistrarDropped(native, regStatus) == native

\* `status = registrar(*var, cancel)`: the status returned once the
\* registrar has been called.
StatusAfterRegistrar(native, regStatus) == regStatus

\* cancelInterrupt without the clamp of a negative count.
UnderflowUnchecked(count) == FALSE

\* `if (m_interruptRefcount[var] < 0)` in cancelInterrupt. With a null var
\* the message printed before the clamp reads through the pointer.
Underflow(count) == count < 0

\* The negative count reported and left as it is.
ClampNone(count) == count

\* `m_interruptRefcount[var] = 0` after the count went negative.
Clamp(count) == 0

\* The arguments and results of a registerInterrupt or cancelInterrupt call.
IntrResult(call, status, cb, cbStatus) ==
    [call EXCEPT !.status = status, !.cb = cb, !.cbStatus = cbStatus]

\* var->function() or var->asString() through a null pointer is undefined:
\* the process dies, or the read yields a name no handler map holds and the
\* call reports an error.
NullDereference(call) ==
    /\ \E dies \in BOOLEAN :
           /\ crashed' = dies
           /\ last' = IntrResult(call, IF dies THEN NULL ELSE asynError,
                                 "none", NULL)
    /\ UNCHANGED intrState

\* `if (registrar != NULL)` taken out: the registrar is called whatever the
\* handler map holds for it.
RegistrarPresentUnchecked(registrar) == TRUE

\* `if (registrar != NULL)` before the registrar is called.
RegistrarPresent(registrar) == registrar # NULL

\* The call's record with one more step done.
Step(call, name) == [call EXCEPT !.steps = Append(@, name)]

\* The part of registerInterrupt and cancelInterrupt that runs when the count
\* has become 1 (0 when cancelling): look the registrar up in T's handler
\* map and call it.
CallRegistrar(call, T, var, native, cancel, regStatus) ==
    IF var = NullVar
    THEN NullDereference(call)
    ELSE /\ UNCHANGED crashed
         /\ IF ~checkHandlersVerbosely(T, params[var].function)
            THEN /\ last' = IntrResult(call, asynError, "none", NULL)
                 /\ UNCHANGED intrState
            ELSE IF RegistrarPresent(
                        handlerMap[T][params[var].function].intrRegistrar)
            THEN /\ intrState' =
                       [intrState EXCEPT
                           ![var] = IF cancel THEN "deactivate" ELSE "activate"]
                 /\ last' = IntrResult(Step(call, "registrar"),
                                StatusAfterRegistrar(native, regStatus),
                                IF cancel THEN "deactivate" ELSE "activate",
                                regStatus)
            ELSE /\ last' = IntrResult(call, native, "none", NULL)
                 /\ UNCHANGED intrState

\* What `last` holds of a call before its results are known.
IntrCall(op, T, reason, native) ==
    [NoCall EXCEPT !.op = op, !.type = T, !.handle = reason,
                   !.var = deviceVariableFromUser(reason), !.native = native,
                   !.before = RefcountOf(deviceVariableFromUser(reason)),
                   !.reason = reason, !.steps = <<"native">>,
                   !.clamped = deviceVariableFromUser(reason) \in underflowed]

\* Driver::registerInterrupt<T>. `native` is the status of the interface's
\* original registerInterruptUser, regStatus the one the registrar returns.
RegisterInterrupt(T, reason, native, regStatus) ==
    LET var == deviceVariableFromUser(reason)
        count == RefcountOf(var) + 1
        call == IntrCall("registerInterrupt", T, reason, native)
        counted == Step(call, "count")
    IN
    /\ ~crashed /\ ~destroyed
    /\ IF NativeFailed(native)
       THEN /\ last' = IntrResult(call, native, "none", NULL)
            /\ UNCHANGED <<interruptRefcount, intrState, crashed, underflowed>>
       ELSE /\ count <= MaxRefs
            /\ interruptRefcount' = (var :> count) @@ interruptRefcount
            /\ underflowed' = underflowed \ {var}
            /\ IF count = 1
               THEN CallRegistrar(counted, T, var, native, FALSE, regStatus)
               ELSE /\ last' = IntrResult(counted, native, "none", NULL)
                    /\ UNCHANGED <<intrState, crashed>>
    /\ UNCHANGED <<parser, opts, addresses, arrayRef,
                   functionTypes, handlerMap, paramList, params,
                   snapshot, destroyed, deleted, repeated>>

\* The handler map of another type looked up by the digital entry point.
DigitalTInt32 == asynParamInt32

\* `typedef epicsUInt32 T;` in registerInterruptDigital.
DigitalT == asynParamUInt32Digital

\* Driver::registerInterruptDigital, the registerInterruptUser of the
\* asynUInt32Digital interface; the call is recorded as the subscribe of
\* that interface. The mask goes to the native registrar and nowhere else.
RegisterInterruptDigital(reason, mask, native, regStatus) ==
    LET var == deviceVariableFromUser(reason)
        count == RefcountOf(var) + 1
        call == IntrCall("registerInterrupt", asynParamUInt32Digital, reason,
                         native)
        counted == Step(call, "count")
    IN
    /\ ~crashed /\ ~destroyed
    /\ mask \in Masks
    /\ IF NativeFailed(native)
       THEN /\ last' = IntrResult(call, native, "none", NULL)
            /\ UNCHANGED <<interruptRefcount, intrState, crashed, underflowed>>
       ELSE /\ count <= MaxRefs
            /\ interruptRefcount' = (var :> count) @@ interruptRefcount
            /\ underflowed' = underflowed \ {var}
            /\ IF count = 1
               THEN CallRegistrar(counted, DigitalT, var, native, FALSE,
                                  regStatus)
               ELSE /\ last' = IntrResult(counted, native, "none", NULL)
                    /\ UNCHANGED <<intrState, crashed>>
    /\ UNCHANGED <<parser, opts, addresses, arrayRef,
                   functionTypes, handlerMap, paramList, params,
                   snapshot, destroyed, deleted, repeated>>

\* Driver::cancelInterrupt<T>.
CancelInterrupt(T, reason, native, regStatus) ==
    LET var == deviceVariableFromUser(reason)
        count == RefcountOf(var) - 1
        call == IntrCall("cancelInterrupt", T, reason, native)
        counted == Step(call, "count")
    IN
    /\ ~crashed /\ ~destroyed
    /\ IF NativeFailed(native)
       THEN /\ last' = IntrResult(call, native, "none", NULL)
            /\ UNCHANGED <<interruptRefcount, intrState, crashed, underflowed>>
       ELSE IF Underflow(count)
       THEN IF var = NullVar
            THEN /\ NullDereference(counted)
                 /\ interruptRefcount' =
                        (var :> IF crashed' THEN count ELSE Clamp(count))
                            @@ interruptRefcount
                 /\ underflowed' = IF crashed' THEN underflowed
                                   ELSE underflowed \union {var}
            ELSE /\ interruptRefcount' =
                        (var :> Clamp(count)) @@ interruptRefcount
                 /\ underflowed' = underflowed \union {var}
                 /\ last' = IntrResult(counted, asynError, "none", NULL)
                 /\ UNCHANGED <<intrState, crashed>>
       ELSE /\ interruptRefcount' = (var :> count) @@ interruptRefcount
            /\ UNCHANGED underflowed
            /\ IF count = 0
               THEN CallRegistrar(counted, T, var, native, TRUE, regStatus)
               ELSE /\ last' = IntrResult(counted, native, "none", NULL)
                    /\ UNCHANGED <<intrState, crashed>>
    /\ UNCHANGED <<parser, opts, addresses, arrayRef,
                   functionTypes, handlerMap, paramList, params,
                   snapshot, destroyed, deleted, repeated>>

(* --------------------------- read and write ---------------------------- *)

\* Driver::hasParam.
hasParam(index) == index \in DOMAIN params

\* Driver::getReadHandler<T>: NULL when T's map has no such function.
getReadHandler(T, function) ==
    IF function \in DOMAIN handlerMap[T]
    THEN handlerMap[T][function].readHandler
    ELSE NULL

\* Driver::getWriteHandler<T>.
getWriteHandler(T, function) ==
    IF function \in DOMAIN handlerMap[T]
    THEN handlerMap[T][function].writeHandler
    ELSE NULL

\* The read handler looked up in the map of the function's own type,
\* whatever interface the request came through.
hasReadHandlerOfAnyType(T, index) ==
    getReadHandler(params[index].asynParamType, params[index].function) # NULL

\* Driver::hasReadHandler<T>.
hasReadHandler(T, index) ==
    getReadHandler(T, params[index].function) # NULL

\* The test for a write handler taken out of the write entry points.
hasWriteHandlerUnchecked(T, index) == TRUE

\* Driver::hasWriteHandler<T>.
hasWriteHandler(T, index) ==
    getWriteHandler(T, params[index].function) # NULL

\* The write overload reduced to the explicit directive.
shouldProcessInterruptsOnlyOn(result) ==
    result.status = asynSuccess /\ result.processInterrupts = ON

\* The write overload without the test of the status.
shouldProcessInterruptsAnyStatus(result) ==
    \/ result.processInterrupts = ON
    \/ result.processInterrupts = DEFAULT /\ opts.autoInterrupts

\* Driver::shouldProcessInterrupts(WriteResult const &).
shouldProcessInterrupts(result) ==
    /\ result.status = asynSuccess
    /\ \/ result.processInterrupts = ON
       \/ result.processInterrupts = DEFAULT /\ opts.autoInterrupts

\* The read path given the rule of the write path.
shouldProcessInterruptsAsWrite(result) ==
    /\ result.status = asynSuccess
    /\ \/ result.processInterrupts = ON
       \/ result.processInterrupts = DEFAULT /\ opts.autoInterrupts

\* Driver::shouldProcessInterrupts(ResultBase const &): the overload chosen
\* for Result<T>, which is what a scalar read handler returns.
shouldProcessInterruptsBase(result) ==
    result.status = asynSuccess /\ result.processInterrupts = ON

\* setParamDispatch(index, value): setIntegerParam or setDoubleParam.
setParamDispatch(list, index, value) ==
    [list EXCEPT ![index + 1].value = value]

\* The alarm copied only from a handler that failed: a success leaves the
\* parameter's alarm as it was.
handleResultStatusOnFailure(list, index, result) ==
    IF result.status = asynSuccess THEN list
    ELSE [list EXCEPT ![index + 1].alarm = result.alarm]

\* Driver::handleResultStatus: the parameter's alarm status and severity
\* become the result's (pasynUser's do too, see `last.alarm`).
handleResultStatus(list, index, result) ==
    [list EXCEPT ![index + 1].alarm = result.alarm]

\* The output assigned only when the handler succeeded.
ReadOutputOnSuccess(result, prior) ==
    IF result.status = asynSuccess THEN result.value ELSE prior

\* `*value = result.value;` in readScalar.
ReadOutput(result, prior) == result.value

\* What `last` holds of a read or write request before its results.
IoCall(op, T, reason, written) ==
    [NoCall EXCEPT !.op = op, !.type = T, !.handle = reason,
                   !.var = deviceVariableFromUser(reason),
                   !.reason = reason, !.written = written]

\* asynPortDriver::readInt32 and readFloat64: the parameter's value is read
\* from the parameter list, which refuses an index it does not have, a
\* parameter of another type and a parameter without a value; pasynUser
\* gets the parameter's alarm status and severity.
BaseRead(call, T, index) ==
    LET exists == index + 1 \in 1 .. Len(paramList)
        ok == /\ exists
              /\ paramList[index + 1].type = T
              /\ paramList[index + 1].value # Undefined
    IN /\ last' = [call EXCEPT
                      !.status = IF ok THEN asynSuccess ELSE asynError,
                      !.out = IF ok THEN paramList[index + 1].value
                              ELSE Undefined,
                      !.alarm = IF exists THEN paramList[index + 1].alarm
                                ELSE NoAlarm]
       /\ UNCHANGED paramList

\* asynPortDriver::writeInt32 and writeFloat64: the value is set in the
\* parameter list and the callbacks are called.
BaseWrite(call, T, index, value) ==
    LET ok == /\ index + 1 \in 1 .. Len(paramList)
              /\ paramList[index + 1].type = T
    IN /\ last' = [call EXCEPT
                      !.status = IF ok THEN asynSuccess ELSE asynError,
                      !.notified = ok]
       /\ paramList' = IF ok THEN setParamDispatch(paramList, index, value)
                       ELSE paramList

\* Driver::readScalar<T>.
readScalar(call, T, reason, result) ==
    LET var == deviceVariableFromUser(reason)
        handler == getReadHandler(T, params[var].function)
        handled == handleResultStatus(paramList, reason, result)
    IN /\ paramList' = IF shouldProcessInterruptsBase(result)
                       THEN setParamDispatch(handled, reason, result.value)
                       ELSE handled
       /\ last' = [call EXCEPT
                      !.invoked = <<handler>>,
                      !.result = result,
                      !.alarm = result.alarm,
                      !.out = ReadOutput(result, call.out),
                      !.notified = shouldProcessInterruptsBase(result),
                      !.status = result.status]

\* Driver::writeScalar<T>.
writeScalar(call, T, reason, value, result) ==
    LET var == deviceVariableFromUser(reason)
        handler == getWriteHandler(T, params[var].function)
        handled == handleResultStatus(paramList, reason, result)
    IN /\ paramList' = IF shouldProcessInterrupts(result)
                       THEN setParamDispatch(handled, reason, value)
                       ELSE handled
       /\ last' = [call EXCEPT
                      !.invoked = <<handler>>,
                      !.result = result,
                      !.alarm = result.alarm,
                      !.notified = shouldProcessInterrupts(result),
                      !.status = result.status]

\* Driver::readInt32 and Driver::readFloat64.
Read(T, reason, result) ==
    LET call == IoCall("read", T, reason, Undefined)
    IN /\ ~crashed /\ ~destroyed
       /\ IF ~hasParam(reason) \/ ~hasReadHandler(T, reason)
          THEN BaseRead(call, T, reason)
          ELSE readScalar(call, T, reason, result)
       /\ UNCHANGED <<parser, opts, addresses, arrayRef,
                      functionTypes, handlerMap, params,
                      interruptRefcount, intrState, crashed, underflowed,
                      snapshot, destroyed, deleted, repeated>>

\* Driver::writeInt32 and Driver::writeFloat64.
Write(T, reason, value, result) ==
    LET call == IoCall("write", T, reason, value)
    IN /\ ~crashed /\ ~destroyed
       /\ IF ~hasParam(reason) \/ ~hasWriteHandler(T, reason)
          THEN BaseWrite(call, T, reason, value)
          ELSE writeScalar(call, T, reason, value, result)
       /\ UNCHANGED <<parser, opts, addresses, arrayRef,
                      functionTypes, handlerMap, params,
                      interruptRefcount, intrState, crashed, underflowed,
                      snapshot, destroyed, deleted, repeated>>

(* ---------------------------- buffer views ----------------------------- *)

\* std::min on sizes.
Min(a, b) == IF a < b THEN a ELSE b

\* Octet::Octet(value, maxSize), which is Array<char>::Array: the view of the
\* caller's buffer of maxSize characters, its size set to maxSize. "?" is
\* what the caller left in the buffer.
Octet(maxSize) ==
    [pc |-> "handler", maxSize |-> maxSize, size |-> maxSize,
     data |-> [i \in 1 .. maxSize |-> "?"], outside |-> {}, nRead |-> 0]

\* Array<T>::setSize.
setSize(view, size) == [view EXCEPT !.size = Min(view.maxSize, size)]

\* Array<T>::fillFrom(data, size): the size is set and that many characters
\* ("c") are copied to the start of the buffer.
ArrayFillFrom(view, size) ==
    [view EXCEPT !.size = Min(view.maxSize, size),
                 !.data = [i \in 1 .. view.maxSize |->
                              IF i <= Min(view.maxSize, size) THEN "c"
                              ELSE view.data[i]]]

\* Octet::terminate writes outside the buffer: m_data[m_size] with m_size
\* equal to maxSize.
TerminatesOutside(view) == view.size > 0 /\ view.size >= view.maxSize

\* Octet::terminate: `if (m_size > 0) m_data[m_size] = 0;`. m_data[k] is
\* data[k + 1]; a write at an index the buffer does not have is recorded in
\* `outside`.
terminate(view) ==
    IF view.size = 0 THEN view
    ELSE IF TerminatesOutside(view)
    THEN [view EXCEPT !.outside = @ \union {view.size}]
    ELSE [view EXCEPT !.data[view.size + 1] = "0"]

\* Octet::fillFrom(data, size).
OctetFillFrom(view, size) == terminate(ArrayFillFrom(view, size))

\* A write past the end of the caller's buffer is undefined: the process
\* dies or goes on with the memory behind the buffer overwritten.
AfterWrite(outside) ==
    /\ crashed' \in IF outside THEN BOOLEAN ELSE {FALSE}

\* Driver::readOctetData up to the call of the read handler: the view of
\* the caller's buffer is made and handed to the handler.
ReadOctetDataBegin(maxSize) ==
    /\ ~crashed /\ ~destroyed
    /\ arrayRef.pc # "handler"
    /\ arrayRef' = Octet(maxSize)
    /\ UNCHANGED <<parser, opts, addresses, functionTypes, handlerMap,
                   paramList, params, interruptRefcount, intrState, crashed,
                   underflowed, snapshot, destroyed, deleted, repeated, last>>

\* The read handler calls value.setSize(size).
HandlerSetSize(size) ==
    /\ ~crashed /\ ~destroyed
    /\ arrayRef.pc = "handler"
    /\ arrayRef' = setSize(arrayRef, size)
    /\ UNCHANGED <<parser, opts, addresses, functionTypes, handlerMap,
                   paramList, params, interruptRefcount, intrState, crashed,
                   underflowed, snapshot, destroyed, deleted, repeated, last>>

\* The read handler calls value.fillFrom(data, size).
HandlerFillFrom(size) ==
    /\ ~crashed /\ ~destroyed
    /\ arrayRef.pc = "handler"
    /\ arrayRef' = OctetFillFrom(arrayRef, size)
    /\ AfterWrite(TerminatesOutside(ArrayFillFrom(arrayRef, size)))
    /\ UNCHANGED <<parser, opts, addresses, functionTypes, handlerMap,
                   paramList, params, interruptRefcount, intrState,
                   underflowed, snapshot, destroyed, deleted, repeated, last>>

\* Driver::readOctetData after the handler has returned: *nRead is the
\* view's size and the view is terminated.
ReadOctetDataEnd ==
    /\ ~crashed /\ ~destroyed
    /\ arrayRef.pc = "handler"
    /\ arrayRef' = [terminate(arrayRef) EXCEPT !.pc = "done",
                                               !.nRead = arrayRef.size]
    /\ AfterWrite(TerminatesOutside(arrayRef))
    /\ UNCHANGED <<parser, opts, addresses, functionTypes, handlerMap,
                   paramList, params, interruptRefcount, intrState,
                   underflowed, snapshot, destroyed, deleted, repeated, last>>

(* ---------------------- enumeration and lifetime ----------------------- *)

\* The keys of a std::map in iteration order: ascending.
RECURSIVE KeysInOrder(_)
KeysInOrder(keys) ==
    IF keys = {} THEN <<>>
    ELSE LET k == CHOOSE x \in keys : \A y \in keys : x <= y
         IN <<k>> \o KeysInOrder(keys \ {k})

\* `delete i->second` for the variables of `seq` in turn: each runs
\* ~DeviceVariable on the variable's address.
RECURSIVE DeleteVariables(_, _)
DeleteVariables(heap, seq) ==
    IF seq = <<>> THEN heap
    ELSE DeleteVariables(
             [heap EXCEPT ![Head(seq)] =
                 DestroyVariable(@, HolderVar(Head(seq)))],
             Tail(seq))

\* Driver::~Driver: every mapped pointer of m_params is deleted, in key
\* order. A variable is identified by the index it was created with.
Destroy ==
    /\ ~crashed /\ ~destroyed
    /\ destroyed' = TRUE
    /\ deleted' = [k \in 1 .. Cardinality(DOMAIN params) |->
                      params[KeysInOrder(DOMAIN params)[k]].asynParamIndex]
    /\ addresses' = DeleteVariables(addresses, deleted')
    /\ last' = [NoCall EXCEPT !.op = "~Driver"]
    /\ UNCHANGED <<parser, opts, arrayRef,
                   functionTypes, handlerMap, paramList, params,
                   interruptRefcount, intrState, crashed, underflowed,
                   snapshot, repeated>>

\* What a thread that does not hold the port lock reads as i->second.
\* `m_params[index] = var` in drvUserCreate inserts the node with a null
\* pointer before it assigns var; until the call that stored the variable is
\* followed by another, the read races with that assignment and yields the
\* variable or the null pointer.
ReadEntry(key) == IF last.created = key THEN {key, NullVar} ELSE {key}

\* Driver::getAllVariables up to the loop: the iterator is at begin().
\* The function takes no lock; it runs on a thread of the derived driver.
GetAllVariablesBegin ==
    /\ ~crashed /\ ~destroyed
    /\ snapshot.pc = "idle"
    /\ snapshot' =
           IF DOMAIN params = {}
           THEN [NoSnapshot EXCEPT !.pc = "done"]
           ELSE [pc |-> "iterating", atStart |-> DOMAIN params,
                 pos |-> KeysInOrder(DOMAIN params)[1], pvs |-> <<>>]
    /\ UNCHANGED <<parser, opts, addresses, arrayRef,
                   functionTypes, handlerMap, paramList, params,
                   interruptRefcount, intrState, crashed, underflowed,
                   destroyed, deleted, repeated, last>>

\* One turn of the loop: pvs.push_back(i->second); ++i.
GetAllVariablesStep ==
    LET later == {k \in DOMAIN params : k > snapshot.pos}
    IN /\ ~crashed /\ ~destroyed
       /\ snapshot.pc = "iterating"
       /\ \E second \in ReadEntry(snapshot.pos) :
              snapshot' =
                  [snapshot EXCEPT
                      !.pvs = Append(@, second),
                      !.pc = IF later = {} THEN "done" ELSE "iterating",
                      !.pos = IF later = {} THEN @
                              ELSE KeysInOrder(later)[1]]
       /\ UNCHANGED <<parser, opts, addresses, arrayRef,
                      functionTypes, handlerMap, paramList,
                      params, interruptRefcount, intrState, crashed,
                      underflowed, destroyed, deleted, repeated, last>>

\* `return pvs`: the caller has the snapshot.
GetAllVariablesReturn ==
    /\ ~crashed /\ ~destroyed
    /\ snapshot.pc = "done"
    /\ snapshot' = NoSnapshot
    /\ UNCHANGED <<parser, opts, addresses, arrayRef,
                   functionTypes, handlerMap, paramList, params,
                   interruptRefcount, intrState, crashed, underflowed,
                   destroyed, deleted, repeated, last>>

\* Driver::getInterruptVarsForInterface: the variables of the clients of one
\* interrupt list whose reason is a key of m_params, in list order.
RECURSIVE getInterruptVarsForInterface(_, _)
getInterruptVarsForInterface(dest, clients) ==
    IF clients = <<>> THEN dest
    ELSE getInterruptVarsForInterface(
             IF hasParam(Head(clients))
             THEN Append(dest, deviceVariableFromUser(Head(clients)))
             ELSE dest,
             Tail(clients))

\* std::sort on the vector of pointers; the order of the variables' indices
\* stands for the order of their addresses.
RECURSIVE Sort(_)
Sort(seq) ==
    IF seq = <<>> THEN <<>>
    ELSE LET least == CHOOSE k \in 1 .. Len(seq) :
                          \A j \in 1 .. Len(seq) :
                              seq[k] < seq[j] \/ (seq[k] = seq[j] /\ k <= j)
         IN <<seq[least]>>
            \o Sort([k \in 1 .. Len(seq) - 1 |->
                        IF k < least THEN seq[k] ELSE seq[k + 1]])

\* The vector returned as collected, without the erase of duplicates.
UniqueSkipped(seq) == seq

\* vars.erase(std::unique(...), vars.end()): of each run of equal elements
\* the first is kept.
RECURSIVE Unique(_)
Unique(seq) ==
    IF Len(seq) < 2 THEN seq
    ELSE IF seq[1] = seq[2] THEN Unique(Tail(seq))
    ELSE <<seq[1]>> \o Unique(Tail(seq))

\* Driver::getInterruptVariables, called with the port locked. `clients`
\* gives, for each interface, the reasons of the asynUsers in the interrupt
\* list asynManager keeps for it.
GetInterruptVariables(clients) ==
    LET collected ==
            getInterruptVarsForInterface(
                getInterruptVarsForInterface(<<>>, clients[asynParamInt32]),
                clients[asynParamFloat64])
    IN /\ ~crashed /\ ~destroyed
       /\ last' = [NoCall EXCEPT !.op = "getInterruptVariables",
                                 !.clients = clients,
                                 !.vars = Unique(Sort(collected))]
       /\ UNCHANGED <<parser, opts, addresses, arrayRef,
                      functionTypes, handlerMap, paramList,
                      params, interruptRefcount, intrState, crashed,
                      underflowed, snapshot, destroyed, deleted, repeated>>

(* --------------------------- specifications ---------------------------- *)

Register ==
    \E f \in FunctionNames, T \in Types, h \in HandlerSets :
        RegisterHandlers(f, T, h) /\ UNCHANGED repeated

\* A registration whose relation to the one before it is recorded: the call
\* before was made for the same function and type and has stored the same
\* handlers.
RegisterTracked ==
    \E f \in FunctionNames, T \in Types, h \in HandlerSets :
        /\ RegisterHandlers(f, T, h)
        /\ repeated' = /\ last.op = "registerHandlers"
                       /\ last.raw = f
                       /\ last.type = T
                       /\ f \in DOMAIN handlerMap[T]
                       /\ handlerMap[T][f] = h

\* A record's asynUser arrives with a reason no parameter has.
Create(reasons) ==
    \E reason \in reasons, r0 \in {MaxParams}, created \in BOOLEAN :
        DrvUserCreate(reason, r0, created)

Subscribe ==
    \E T \in Types, reason \in Handles, native \in Statuses,
       regStatus \in Statuses :
        RegisterInterrupt(T, reason, native, regStatus)

Unsubscribe ==
    \E T \in Types, reason \in Handles, native \in Statuses,
       regStatus \in Statuses :
        CancelInterrupt(T, reason, native, regStatus)

\* The registry: handlers are registered and channels resolved in any order.
Next == Register \/ Create(RawReasons)

Spec == Init /\ [][Next]_vars

\* The handler maps as a derived driver's constructor leaves them, after the
\* pattern of AutoparamTest::AutoparamTest: F is an Int32 function with an
\* interrupt registrar, G a Float64 function without one.
InitRegistered ==
    /\ parser = "AutoparamTest"
    /\ opts = [autoInterrupts |-> TRUE]
    /\ functionTypes =
           (<<"F">> :> asynParamInt32) @@ (<<"G">> :> asynParamFloat64)
    /\ handlerMap =
           [t \in Types |->
               IF t = asynParamInt32
               THEN <<"F">> :> [readHandler |-> "rd1", writeHandler |-> NULL,
                                intrRegistrar |-> "reg"]
               ELSE <<"G">> :> [readHandler |-> "rd2", writeHandler |-> "wr1",
                                intrRegistrar |-> NULL]]
    /\ paramList = <<>>
    /\ params = <<>>
    /\ interruptRefcount = <<>>
    /\ intrState = <<>>
    /\ crashed = FALSE
    /\ underflowed = {}
    /\ snapshot = NoSnapshot
    /\ destroyed = FALSE
    /\ deleted = <<>>
    /\ repeated = FALSE
    /\ addresses = <<>>
    /\ arrayRef = NoView
    /\ last = NoCall

\* Records bind to channels and switch to and from I/O Intr scanning.
NextIntr == Create(RecordReasons) \/ Subscribe \/ Unsubscribe

SpecIntr == InitRegistered /\ [][NextIntr]_vars

\* A record reads through its interface.
ReadRequest ==
    \E T \in Types, reason \in Handles, result \in ReadResults :
        Read(T, reason, result)

\* A record writes through its interface.
WriteRequest ==
    \E T \in Types, reason \in Handles, value \in Values,
       result \in WriteResults :
        Write(T, reason, value, result)

\* The handler maps as a derived driver's constructor leaves them: F is an
\* Int32 function with a reader and a writer (SUM in the test driver), G a
\* Float64 function registered without handlers (as DEFHANDLER is); the
\* driver is constructed with or without autoInterrupts.
InitIO ==
    /\ parser = "AutoparamTest"
    /\ opts \in [autoInterrupts : BOOLEAN]
    /\ functionTypes =
           (<<"F">> :> asynParamInt32) @@ (<<"G">> :> asynParamFloat64)
    /\ handlerMap =
           [t \in Types |->
               IF t = asynParamInt32
               THEN <<"F">> :> [readHandler |-> "rd2", writeHandler |-> "wr1",
                                intrRegistrar |-> NULL]
               ELSE <<"G">> :> [readHandler |-> NULL, writeHandler |-> NULL,
                                intrRegistrar |-> NULL]]
    /\ paramList = <<>>
    /\ params = <<>>
    /\ interruptRefcount = <<>>
    /\ intrState = <<>>
    /\ crashed = FALSE
    /\ underflowed = {}
    /\ snapshot = NoSnapshot
    /\ destroyed = FALSE
    /\ deleted = <<>>
    /\ repeated = FALSE
    /\ addresses = <<>>
    /\ arrayRef = NoView
    /\ last = NoCall

\* Records bind to channels, read them and write them.
NextIO == Create(RecordReasons) \/ ReadRequest \/ WriteRequest

SpecIO == InitIO /\ [][NextIO]_vars

\* The life of a driver: handlers are registered, records bind to channels
\* and the driver is destroyed.
NextLife == RegisterTracked \/ Create(RecordReasons) \/ Destroy

SpecLife == Init /\ [][NextLife]_vars

\* A thread of the derived driver takes snapshots of the variables while
\* records bind to channels.
NextSnapshot ==
    \/ Create(RecordReasons)
    \/ GetAllVariablesBegin
    \/ GetAllVariablesStep
    \/ GetAllVariablesReturn

SpecSnapshot == InitRegistered /\ [][NextSnapshot]_vars

\* Interrupt lists of up to two clients.
ClientLists ==
    {<<>>} \union {<<a>> : a \in Handles}
           \union {<<a, b>> : a \in Handles, b \in Handles}

\* The scan thread asks for the variables that have interrupt clients.
InterruptVariablesRequest ==
    \E clients \in [Types -> ClientLists] : GetInterruptVariables(clients)

NextIntrVars == Create(RecordReasons) \/ InterruptVariablesRequest

SpecIntrVars == InitRegistered /\ [][NextIntrVars]_vars

\* A driver with a digital function: F has handlers for UInt32Digital and an
\* interrupt registrar (DIGIO of the test driver, with a registrar), G is a
\* Float64 function without one.
InitDigital ==
    /\ parser = "AutoparamTest"
    /\ opts = [autoInterrupts |-> TRUE]
    /\ functionTypes =
           (<<"F">> :> asynParamUInt32Digital) @@ (<<"G">> :> asynParamFloat64)
    /\ handlerMap =
           [t \in InterfaceTypes |->
               IF t = asynParamUInt32Digital
               THEN <<"F">> :> [readHandler |-> "rd1", writeHandler |-> "wr2",
                                intrRegistrar |-> "reg"]
               ELSE IF t = asynParamFloat64
               THEN <<"G">> :> [readHandler |-> "rd2", writeHandler |-> "wr1",
                                intrRegistrar |-> NULL]
               ELSE <<>>]
    /\ paramList = <<>>
    /\ params = <<>>
    /\ interruptRefcount = <<>>
    /\ intrState = <<>>
    /\ crashed = FALSE
    /\ underflowed = {}
    /\ snapshot = NoSnapshot
    /\ destroyed = FALSE
    /\ deleted = <<>>
    /\ repeated = FALSE
    /\ addresses = <<>>
    /\ arrayRef = NoView
    /\ last = NoCall

\* A record of the digital interface switches to I/O Intr scanning.
SubscribeDigital ==
    \E reason \in Handles, mask \in Masks, native \in Statuses,
       regStatus \in Statuses :
        RegisterInterruptDigital(reason, mask, native, regStatus)

\* A record of the Float64 interface switches to I/O Intr scanning.
SubscribeFloat64 ==
    \E reason \in Handles, native \in Statuses, regStatus \in Statuses :
        RegisterInterrupt(asynParamFloat64, reason, native, regStatus)

\* A record of the digital interface leaves I/O Intr scanning; the digital
\* interface has the cancelInterruptUser of every other one.
UnsubscribeDigital ==
    \E reason \in Handles, native \in Statuses, regStatus \in Statuses :
        CancelInterrupt(asynParamUInt32Digital, reason, native, regStatus)

\* Records of the digital and of the Float64 interface subscribe to the same
\* channels.
NextDigital ==
    \/ Create(RecordReasons)
    \/ SubscribeDigital
    \/ SubscribeFloat64
    \/ UnsubscribeDigital

SpecDigital == InitDigital /\ [][NextDigital]_vars

\* A record reads a string: the read handler sets the size of the view and
\* fills it any number of times before it returns.
NextOctet ==
    \/ \E maxSize \in 0 .. MaxSize : ReadOctetDataBegin(maxSize)
    \/ \E size \in 0 .. MaxSize + 1 : HandlerSetSize(size)
    \/ \E size \in 0 .. MaxSize + 1 : HandlerFillFrom(size)
    \/ ReadOctetDataEnd

SpecOctet == InitRegistered /\ [][NextOctet]_vars

(* ------------------------------- claims -------------------------------- *)

\* The address drvUserCreate obtains for a reason string.
AddressOf(reason) ==
    parseDeviceAddress(ExtractFunction(reason), ExtractArguments(reason))

\* The variables whose address compares equal to `addr`.
SlotsAt(addr) == {i \in DOMAIN params : AddressEquals(params[i].address, addr)}

\* C1: once a variable exists for an address, drvUserCreate of any reason
\* string that parses to an equal address succeeds with that variable's
\* index and adds no variable; a successful drvUserCreate of an address that
\* has no variable yet adds exactly one, so equal addresses share one slot.
C1_EqualAddressesShareHandle ==
    [][(last'.op = "drvUserCreate" /\ AddressOf(last'.raw).valid)
       => LET equal == SlotsAt(AddressOf(last'.raw))
          IN /\ equal # {}
                => /\ last'.status = asynSuccess
                   /\ last'.reason \in equal
                   /\ params' = params
                   /\ Cardinality(equal) = 1
             /\ (equal = {} /\ last'.status = asynSuccess)
                => /\ Cardinality(DOMAIN params') =
                          Cardinality(DOMAIN params) + 1
                   /\ last'.reason \in DOMAIN params' \ DOMAIN params
                   /\ AddressEquals(params'[last'.reason].address,
                                    AddressOf(last'.raw))
      ]_vars

\* A variable was reused through a reason string other than the one that
\* created it.
C1_Witness ==
    /\ last.op = "drvUserCreate"
    /\ last.status = asynSuccess
    /\ last.reason \in DOMAIN params
    /\ params[last.reason].reasonString # last.raw
    /\ Cardinality(DOMAIN params) = 1

\* C2: in every reachable state, whatever the order in which threads issue
\* drvUserCreate for equal or different reason strings, no two variables of
\* the registry have addresses that compare equal.
C2_AtMostOneSlotPerAddress ==
    \A i, j \in DOMAIN params :
        i # j => ~AddressEquals(params[i].address, params[j].address)

\* Two variables exist and the last call resolved a differently written
\* reason string to one of them.
C2_Witness ==
    /\ Cardinality(DOMAIN params) = 2
    /\ last.op = "drvUserCreate"
    /\ last.status = asynSuccess
    /\ last.reason \in DOMAIN params
    /\ params[last.reason].reasonString # last.raw

\* C8: registerHandlers of a function under a type other than the one it is
\* registered for changes neither the function-to-type map nor any handler
\* map; the other type's map has no entry for the function.
C8_ConflictingRegistrationIsNoOp ==
    [][(/\ last'.op = "registerHandlers"
        /\ last'.raw \in DOMAIN functionTypes
        /\ functionTypes[last'.raw] # last'.type)
       => /\ functionTypes' = functionTypes
          /\ handlerMap' = handlerMap
          /\ last'.raw \notin DOMAIN handlerMap'[last'.type]
          /\ last'.raw \in DOMAIN handlerMap'[functionTypes'[last'.raw]]
      ]_vars

\* The last call tried to register a function under a second type.
C8_Witness ==
    /\ last.op = "registerHandlers"
    /\ last.raw \in DOMAIN functionTypes
    /\ functionTypes[last.raw] # last.type
    /\ \E i \in DOMAIN params : params[i].function = last.raw

\* C10: when parseDeviceAddress returns no address, drvUserCreate returns
\* asynError and leaves the registry, the asyn parameter list and the
\* reference counts as they were.
C10_ParseFailureCreatesNothing ==
    [][(/\ last'.op = "drvUserCreate"
        /\ ExtractFunction(last'.raw) # <<>>
        /\ ~AddressOf(last'.raw).valid)
       => /\ last'.status = asynError
          /\ params' = params
          /\ paramList' = paramList
          /\ interruptRefcount' = interruptRefcount
      ]_vars

\* The parser refused the reason string of a registered function.
C10_Witness ==
    /\ last.op = "drvUserCreate"
    /\ last.status = asynError
    /\ ExtractFunction(last.raw) \in DOMAIN functionTypes
    /\ ~AddressOf(last.raw).valid

\* The entry points that wrap the native interrupt registrars.
IntrOps == {"registerInterrupt", "cancelInterrupt"}

\* The function of variable v is registered with an interrupt registrar.
HasRegistrar(v) ==
    LET f == params[v].function
    IN /\ f \in DOMAIN functionTypes
       /\ f \in DOMAIN handlerMap[functionTypes[f]]
       /\ handlerMap[functionTypes[f]][f].intrRegistrar # NULL

\* C3: for a variable whose function has an interrupt registrar, the
\* registrar is called with cancel = false exactly by the registerInterrupt
\* calls whose native registration succeeded at count 0 (the count moves from
\* 0 to 1), and with cancel = true exactly by the cancelInterrupt calls whose
\* native cancellation succeeded at count 1; no other call reaches it.
C3_RegistrarCalledExactlyOnEdges ==
    (/\ last.op \in IntrOps
     /\ ~crashed
     /\ last.var # NullVar
     /\ HasRegistrar(last.var))
    => /\ last.cb = "activate"
          <=> /\ last.op = "registerInterrupt"
              /\ last.native = asynSuccess
              /\ last.before = 0
       /\ last.cb = "deactivate"
          <=> /\ last.op = "cancelInterrupt"
              /\ last.native = asynSuccess
              /\ last.before = 1

\* C4: the registrar calls of one variable alternate, starting with
\* cancel = false: it is called with cancel = false only when its previous
\* call, if any, was with cancel = true, and with cancel = true only when
\* its previous call was with cancel = false.
C4_RegistrarCallsAlternate ==
    [][(last'.op \in IntrOps /\ last'.cb # "none" /\ last'.var \in DOMAIN params)
       => IF last'.cb = "activate"
          THEN intrState[last'.var] \in {"none", "deactivate"}
          ELSE intrState[last'.var] = "activate"
      ]_vars

\* C5: a reference count is 0 when its variable is created and no variable's
\* count is negative after any call; cancelInterrupt with a successful native
\* cancellation at count 0 leaves the count 0, returns a failure and calls
\* no registrar.
C5_RefcountClampedAtZero ==
    [][/\ \A v \in DOMAIN params' :
              v \in DOMAIN interruptRefcount' /\ interruptRefcount'[v] >= 0
       /\ \A v \in DOMAIN params' \ DOMAIN params :
              v \in DOMAIN interruptRefcount' /\ interruptRefcount'[v] = 0
       /\ (/\ last'.op = "cancelInterrupt"
           /\ last'.native = asynSuccess
           /\ last'.var # NullVar
           /\ last'.before = 0)
          => /\ interruptRefcount'[last'.var] = 0
             /\ last'.status # asynSuccess
             /\ last'.cb = "none"
             /\ intrState' = intrState
      ]_vars

\* A variable's interrupt was cancelled once more than it was registered.
C5_Witness ==
    /\ last.op = "cancelInterrupt"
    /\ last.native = asynSuccess
    /\ last.var # NullVar
    /\ last.before = 0
    /\ last.status = asynError
    /\ HasRegistrar(last.var)

\* C6: when the native registration or cancellation returns a status other
\* than asynSuccess, the wrapper returns that status, the variable's
\* reference count is what it was and the registrar is not called.
C6_NativeFailureChangesNothing ==
    (last.op \in IntrOps /\ last.native # asynSuccess)
    => /\ last.status = last.native
       /\ last.cb = "none"
       /\ RefcountOf(last.var) = last.before

\* The native registration timed out where a success would have called the
\* registrar.
C6_Witness ==
    /\ last.op = "registerInterrupt"
    /\ last.native = asynTimeout
    /\ last.var # NullVar
    /\ last.before = 0
    /\ last.type = params[last.var].asynParamType
    /\ HasRegistrar(last.var)

\* C7: when the registrar returns a status other than asynSuccess, the
\* wrapper returns exactly that status and the count keeps the change made
\* before the call: 1 after a failed activation, 0 after a failed
\* deactivation.
C7_RegistrarFailurePropagates ==
    (last.op \in IntrOps /\ last.cb # "none" /\ last.cbStatus # asynSuccess)
    => /\ last.status = last.cbStatus
       /\ RefcountOf(last.var) = IF last.cb = "activate" THEN 1 ELSE 0

\* The registrar failed with a timeout when the first record registered.
C7_Witness ==
    /\ last.op = "registerInterrupt"
    /\ last.cb = "activate"
    /\ last.cbStatus = asynTimeout
    /\ last.status = asynTimeout
    /\ RefcountOf(last.var) = 1

\* C9: a drvUserCreate call that finds a variable with an equal address
\* leaves the registry, the asyn parameter list, every reference count and
\* the handler maps as they were.
C9_ReuseChangesNothing ==
    [][(/\ last'.op = "drvUserCreate"
        /\ AddressOf(last'.raw).valid
        /\ SlotsAt(AddressOf(last'.raw)) # {})
       => /\ params' = params
          /\ paramList' = paramList
          /\ interruptRefcount' = interruptRefcount
          /\ handlerMap' = handlerMap
          /\ functionTypes' = functionTypes
      ]_vars

\* A variable with registered interrupt users was resolved once more.
C9_Witness ==
    /\ last.op = "drvUserCreate"
    /\ last.status = asynSuccess
    /\ last.reason \in DOMAIN params
    /\ interruptRefcount[last.reason] > 0

\* C11: drvUserCreate of a reason that parses, has no variable yet and
\* names a function without registered handlers returns asynError and
\* leaves the registry, the asyn parameter list and the reference counts as
\* they were.
C11_UnregisteredFunctionCreatesNothing ==
    [][(/\ last'.op = "drvUserCreate"
        /\ ExtractFunction(last'.raw) # <<>>
        /\ AddressOf(last'.raw).valid
        /\ SlotsAt(AddressOf(last'.raw)) = {}
        /\ ExtractFunction(last'.raw) \notin DOMAIN functionTypes)
       => /\ last'.status = asynError
          /\ last'.reason = last'.handle
          /\ params' = params
          /\ paramList' = paramList
          /\ interruptRefcount' = interruptRefcount
      ]_vars

\* A reason naming G failed to resolve while only F had handlers.
C11_Witness ==
    /\ last.op = "drvUserCreate"
    /\ last.status = asynError
    /\ AddressOf(last.raw).valid
    /\ ExtractFunction(last.raw) = <<"G">>
    /\ DOMAIN functionTypes = {<<"F">>}

\* C12: when createDeviceVariable returns NULL (the reason parses, has no
\* variable yet and names a registered function, and the call fails),
\* drvUserCreate stores no variable and the asyn parameter list is the same
\* as before the call.
C12_FailedMaterializationRollsBack ==
    [][(/\ last'.op = "drvUserCreate"
        /\ AddressOf(last'.raw).valid
        /\ SlotsAt(AddressOf(last'.raw)) = {}
        /\ ExtractFunction(last'.raw) \in DOMAIN functionTypes
        /\ last'.status = asynError)
       => /\ params' = params
          /\ paramList' = paramList
      ]_vars

\* C20: drvUserCreate of a reason whose function equals that of an existing
\* variable but whose argument list differs never returns that variable's
\* index: on success the index returned belongs to a variable with the
\* reason's own argument list.
C20_DifferentArgumentsDifferentHandles ==
    [][(/\ last'.op = "drvUserCreate"
        /\ last'.status = asynSuccess
        /\ AddressOf(last'.raw).valid)
       => /\ \A i \in DOMAIN params :
                 (/\ params[i].address.function
                        = AddressOf(last'.raw).function
                  /\ params[i].address.arguments
                        # AddressOf(last'.raw).arguments)
                 => last'.reason # i
          /\ last'.reason \in DOMAIN params'
          /\ params'[last'.reason].address.arguments
                 = AddressOf(last'.raw).arguments
      ]_vars

\* "F 1" and "F 2" are both resolved, to two variables.
C20_Witness ==
    /\ last.op = "drvUserCreate"
    /\ last.status = asynSuccess
    /\ \E i, j \in DOMAIN params :
           /\ i # j
           /\ j = last.reason
           /\ params[i].function = params[j].function
           /\ params[i].address.arguments = <<<<"1">>>>
           /\ params[j].address.arguments = <<<<"2">>>>

\* C13: registerInterrupt or cancelInterrupt presented with a reason that
\* has no variable, the native call having succeeded, returns a failure,
\* does not read through the null variable (the process survives), calls no
\* registrar and leaves m_interruptRefcount without an entry for it.
C13_UnknownHandleIsRefused ==
    (/\ last.op \in IntrOps
     /\ last.native = asynSuccess
     /\ last.handle \notin DOMAIN params)
    => /\ ~crashed
       /\ last.status \in Statuses \ {asynSuccess}
       /\ last.cb = "none"
       /\ NullVar \notin DOMAIN interruptRefcount

\* The asyn parameter of index `index`, in list `list`.
ParamOf(list, index) == list[index + 1]

\* The call that ran last was a read of a variable whose function has no
\* read handler in the map of the interface the request came through.
ReadWithoutHandler(call) ==
    /\ call.op = "read"
    /\ call.handle \in DOMAIN params
    /\ getReadHandler(call.type, params[call.handle].function) = NULL

\* The call that ran last went through a read or write handler.
Handled(call, op) == call.op = op /\ call.invoked # <<>>

C15_HandlerFailureFreezesValue ==
    [][(/\ last'.op \in {"read", "write"}
        /\ last'.invoked # <<>>
        /\ last'.result.status # asynSuccess)
       => /\ ParamOf(paramList', last'.handle).value
                = ParamOf(paramList, last'.handle).value
          /\ ~last'.notified
          /\ last'.status = last'.result.status
          /\ Len(last'.invoked) = 1
      ]_vars

\* A write handler timed out, asking for interrupts, on a parameter holding
\* another value than the one written.
C15_Witness ==
    /\ Handled(last, "write")
    /\ last.result.status = asynTimeout
    /\ last.result.processInterrupts = ON
    /\ ParamOf(paramList, last.handle).value \in Values \ {last.written}

\* C16: after a read handler returns asynSuccess, the callbacks are called
\* if and only if processInterrupts is ON, or DEFAULT with autoInterrupts
\* enabled.
C16_ReadNotifiesOnOnOrDefault ==
    (Handled(last, "read") /\ last.result.status = asynSuccess)
    => (last.notified
        <=> \/ last.result.processInterrupts = ON
            \/ /\ last.result.processInterrupts = DEFAULT
               /\ opts.autoInterrupts)

\* C16, amended: after a read handler returns asynSuccess, the callbacks are
\* called if and only if processInterrupts is ON; DEFAULT never calls them
\* after a read, whatever autoInterrupts is.
C16_ReadNotifiesOnlyOnOn ==
    (Handled(last, "read") /\ last.result.status = asynSuccess)
    => (last.notified <=> last.result.processInterrupts = ON)

\* A successful read with DEFAULT under autoInterrupts called no callbacks.
C16_Witness ==
    /\ Handled(last, "read")
    /\ last.result.status = asynSuccess
    /\ last.result.processInterrupts = DEFAULT
    /\ opts.autoInterrupts
    /\ ~last.notified

\* C17: after a scalar read handler returns asynSuccess, the parameter's
\* value is the value the handler returned, whatever processInterrupts is.
C17_SuccessfulReadSetsParameter ==
    (Handled(last, "read") /\ last.result.status = asynSuccess)
    => ParamOf(paramList, last.handle).value = last.result.value

\* C18: after a write handler returns asynSuccess, the written value is set
\* in the parameter and the callbacks are called when processInterrupts is
\* ON, or DEFAULT with autoInterrupts enabled; otherwise the parameter's
\* value is what it was and the callbacks are not called.
C18_WritePropagation ==
    [][(Handled(last', "write") /\ last'.result.status = asynSuccess)
       => IF \/ last'.result.processInterrupts = ON
             \/ /\ last'.result.processInterrupts = DEFAULT
                /\ opts.autoInterrupts
          THEN /\ ParamOf(paramList', last'.handle).value = last'.written
               /\ last'.notified
          ELSE /\ ParamOf(paramList', last'.handle).value
                     = ParamOf(paramList, last'.handle).value
               /\ ~last'.notified
      ]_vars

\* A successful write with DEFAULT under autoInterrupts set the parameter.
C18_Witness ==
    /\ Handled(last, "write")
    /\ last.result.status = asynSuccess
    /\ last.result.processInterrupts = DEFAULT
    /\ opts.autoInterrupts
    /\ last.notified
    /\ ParamOf(paramList, last.handle).value = last.written

\* C19: a scalar read through a read handler assigns the value the handler
\* returned to the caller's output, whatever status the handler returned.
C19_ReadOutputIsHandlerValue ==
    Handled(last, "read") => last.out = last.result.value

\* A failed read still delivered the handler's value.
C19_Witness ==
    /\ Handled(last, "read")
    /\ last.result.status = asynError
    /\ last.out = last.result.value
    /\ last.out \in Values

\* C21: drvUserCreate of a reason string with a function name whose first
\* argument token begins with '{' or '[' returns asynError and leaves the
\* registry as it was.
C21_ReservedArgumentIsRejected ==
    [][LET args == SplitArguments(ExtractArguments(last'.raw))
       IN (/\ last'.op = "drvUserCreate"
           /\ ExtractFunction(last'.raw) # <<>>
           /\ args # <<>>
           /\ Head(args[1]) \in {"{", "["})
          => /\ last'.status = asynError
             /\ params' = params]_vars

\* DeviceVariable::asString: the reason string the variable was built from.
asString(var) == var.reasonString

\* C22: the string form of every variable, which is also the name of its
\* asyn parameter, is its function and its arguments joined by single
\* spaces, whatever whitespace the reason string that created it had.
C22_AsStringIsNormalized ==
    \A i \in DOMAIN params :
        LET RECURSIVE Join(_)
            Join(words) ==
                IF words = <<>> THEN <<>>
                ELSE <<" ">> \o Head(words) \o Join(Tail(words))
        IN /\ asString(params[i]) =
                  params[i].function \o Join(params[i].address.arguments)
           /\ paramList[i + 1].name = asString(params[i])

\* C23: no call removes or replaces a variable of m_params: an index that
\* holds a variable holds the same variable in the next state; and when the
\* driver is destroyed, every variable of m_params is deleted once and
\* nothing else is.
C23_RegistryIsAppendOnly ==
    [][/\ \A i \in DOMAIN params :
              i \in DOMAIN params' /\ params'[i] = params[i]
       /\ destroyed' =>
              /\ Len(deleted') = Cardinality(DOMAIN params')
              /\ \A i \in DOMAIN params' :
                     Cardinality({k \in DOMAIN deleted' :
                                     deleted'[k] = params'[i].asynParamIndex})
                         = 1
      ]_vars

\* A driver with two variables was destroyed.
C23_Witness ==
    /\ destroyed
    /\ Cardinality(DOMAIN params) >= 2
    /\ Len(deleted) = Cardinality(DOMAIN params)

\* C24: a variable keeps its function name and its type in every step, and
\* after every step the type of each variable is the type m_functionTypes
\* holds for the variable's function.
C24_SlotTypeIsFunctionType ==
    [][/\ \A i \in DOMAIN params :
              /\ i \in DOMAIN params'
              /\ params'[i].function = params[i].function
              /\ params'[i].asynParamType = params[i].asynParamType
       /\ \A i \in DOMAIN params' :
              /\ params'[i].function \in DOMAIN functionTypes'
              /\ functionTypes'[params'[i].function] =
                     params'[i].asynParamType
      ]_vars

\* Handlers of another type were offered for the function of an existing
\* variable.
C24_Witness ==
    /\ last.op = "registerHandlers"
    /\ \E i \in DOMAIN params :
           /\ params[i].function = last.raw
           /\ params[i].asynParamType # last.type

\* C25: the vector getInterruptVariables returns holds no variable twice and
\* only variables of m_params, whatever clients the interrupt lists hold.
C25_InterruptVariablesAreDistinct ==
    last.op = "getInterruptVariables"
    => /\ \A j \in DOMAIN last.vars, k \in DOMAIN last.vars :
              j # k => last.vars[j] # last.vars[k]
       /\ \A k \in DOMAIN last.vars : last.vars[k] \in DOMAIN params

\* A variable had two clients in one interrupt list and one in another, next
\* to a client whose reason has no variable; it was returned once.
C25_Witness ==
    /\ last.op = "getInterruptVariables"
    /\ \E v \in DOMAIN params, u \in Handles \ DOMAIN params :
           /\ last.clients[asynParamInt32] = <<v, v>>
           /\ last.clients[asynParamFloat64] = <<u, v>>
           /\ last.vars = <<v>>

\* C26: the vector a getAllVariables call has collected when its loop ends
\* holds no null pointer, holds every variable m_params had when the call
\* began, and holds only variables of m_params.
C26_SnapshotIsConsistent ==
    snapshot.pc = "done"
    => /\ \A k \in DOMAIN snapshot.pvs : snapshot.pvs[k] # NullVar
       /\ \A i \in snapshot.atStart :
              \E k \in DOMAIN snapshot.pvs : snapshot.pvs[k] = i
       /\ \A k \in DOMAIN snapshot.pvs :
              snapshot.pvs[k] # NullVar => snapshot.pvs[k] \in DOMAIN params

C28_RegisterHandlersIsIdempotent ==
    [][(last'.op = "registerHandlers" /\ repeated')
       => /\ handlerMap' = handlerMap
          /\ functionTypes' = functionTypes]_vars

\* An accepted registration was made a second time.
C28_Witness ==
    /\ last.op = "registerHandlers"
    /\ repeated
    /\ last.raw \in DOMAIN handlerMap[last.type]
    /\ handlerMap[last.type][last.raw].readHandler # NULL
    /\ functionTypes[last.raw] = last.type

\* C29: a registerInterrupt or cancelInterrupt call starts with the native
\* call; it updates the count only when the native call returned asynSuccess
\* and as its second step; it calls the registrar only as the step after the
\* update of the count.
C29_NativeThenCountThenRegistrar ==
    last.op \in IntrOps
    => /\ last.steps # <<>>
       /\ last.steps[1] = "native"
       /\ \A k \in DOMAIN last.steps :
              /\ last.steps[k] = "native" => k = 1
              /\ last.steps[k] = "count"
                     => k = 2 /\ last.native = asynSuccess
              /\ last.steps[k] = "registrar"
                     => k = 3 /\ last.steps[2] = "count"
       /\ last.cb # "none" => last.steps[Len(last.steps)] = "registrar"

\* A call went through all three steps.
C29_Witness ==
    /\ last.op \in IntrOps
    /\ last.steps = <<"native", "count", "registrar">>
    /\ last.cb # "none"

C31_DigitalSubscribeIsGenericSubscribe ==
    [][(last'.op = "registerInterrupt"
            /\ last'.type = asynParamUInt32Digital)
        => \E regStatus \in Statuses :
               RegisterInterrupt(asynParamUInt32Digital, last'.handle,
                                 last'.native, regStatus)]_vars

\* A slot of the digital function whose registrar is active gets its second
\* subscriber through the digital entry point.
C31_Witness ==
    /\ last.op = "registerInterrupt"
    /\ last.type = asynParamUInt32Digital
    /\ last.var # NullVar
    /\ last.native = asynSuccess
    /\ last.before = 1
    /\ interruptRefcount[last.var] = 2
    /\ intrState[last.var] = "activate"

\* C32: every call that invokes a read or a write handler, whatever status
\* the handler returns, leaves the result's alarm status and severity both
\* in pasynUser and in the channel's asyn parameter; no other call changes a
\* parameter's alarm, so a channel's alarm is that of the latest handler
\* result (a later success without alarm clears an earlier alarm).
C32_AlarmIsLatestHandlerResult ==
    [][/\ last'.invoked # <<>> =>
              /\ last'.alarm = last'.result.alarm
              /\ ParamOf(paramList', last'.reason).alarm = last'.result.alarm
       /\ \A i \in 1 .. Len(paramList) :
              (last'.invoked = <<>> \/ last'.reason # i - 1)
                  => paramList'[i].alarm = paramList[i].alarm]_vars

\* A handler that failed has raised the channel's alarm.
C32_Witness ==
    /\ last.invoked # <<>>
    /\ last.status = asynError
    /\ last.result.alarm = SoftInvalid
    /\ last.alarm = SoftInvalid
    /\ ParamOf(paramList, last.reason).alarm = SoftInvalid

\* C33: between calls, for every channel whose function has an interrupt
\* registrar, the registrar's most recent call was with cancel = false if and
\* only if the channel's subscriber count is at least 1, whatever interface
\* the subscribers came through.
C33_ActiveIffSubscribed ==
    \A v \in DOMAIN params :
        HasRegistrar(v)
            => (intrState[v] = "activate" <=> RefcountOf(v) >= 1)

\* C34: a slot's subscriber count is 0 when the slot is made, goes up by one
\* with every subscribe whose native call succeeded and down by one with
\* every unsubscribe whose native call succeeded, through whatever interface
\* the call came, and no other call changes it; so, as long as the
\* unsubscribes have not outnumbered the subscribes (the one step exempted
\* is the one that would take the count below 0), the count is the number of
\* the former minus the number of the latter.
C34_CountIsSubscribesMinusUnsubscribes ==
    [][/\ \A v \in DOMAIN params :
              LET mine == /\ last'.op \in IntrOps
                          /\ last'.var = v
                          /\ last'.native = asynSuccess
                  delta == IF ~mine THEN 0
                           ELSE IF last'.op = "registerInterrupt" THEN 1
                           ELSE -1
              IN interruptRefcount[v] + delta >= 0
                     => interruptRefcount'[v] = interruptRefcount[v] + delta
       /\ \A v \in DOMAIN params' \ DOMAIN params :
              interruptRefcount'[v] = 0]_vars

\* A slot of an Int32 function got its second subscriber through the Float64
\* interface.
C34_Witness ==
    /\ last.op = "registerInterrupt"
    /\ last.type = asynParamFloat64
    /\ last.var # NullVar
    /\ functionTypes[params[last.var].function] = asynParamInt32
    /\ last.native = asynSuccess
    /\ last.before = 1
    /\ interruptRefcount[last.var] = 2

\* C35: a read or write request invokes a user handler only when its handle
\* is a key of m_params and the map of the request's interface holds a
\* non-null handler of the request's direction under the function of that
\* variable, and then it invokes exactly that handler, once; every other
\* request (unknown handle, function not in the interface's map, null
\* handler) invokes no handler and has no handler result: it is answered by
\* asynPortDriver.
C35_OnlyRegisteredHandlerIsInvoked ==
    last.op \in {"read", "write"} =>
        LET known == last.handle \in DOMAIN params
            table == handlerMap[last.type]
            registered ==
                IF known /\ params[last.handle].function \in DOMAIN table
                THEN IF last.op = "read"
                     THEN table[params[last.handle].function].readHandler
                     ELSE table[params[last.handle].function].writeHandler
                ELSE NULL
        IN IF registered # NULL
           THEN last.invoked = <<registered>> /\ last.var = last.handle
           ELSE last.invoked = <<>> /\ last.result = NULL

\* A write through the interface the function is registered for has invoked
\* the function's write handler.
C35_Witness ==
    /\ last.op = "write"
    /\ last.handle \in DOMAIN params
    /\ last.type = asynParamInt32
    /\ params[last.handle].function = <<"F">>
    /\ last.invoked = <<"wr1">>

\* C36: a drvUserCreate call that fails, whether for an empty function
\* name, an address the parser rejects, a function without handlers or a
\* createDeviceVariable that returns NULL, returns with pasynUser->reason as
\* it was on entry and leaves m_params and m_interruptRefcount as they were.
C36_FailedCreateLeavesRegistryAlone ==
    [][(last'.op = "drvUserCreate" /\ last'.status # asynSuccess)
       => /\ last'.reason = last'.handle
          /\ params' = params
          /\ interruptRefcount' = interruptRefcount
      ]_vars

\* With a variable already stored, a call for another address of a
\* registered function has failed: createDeviceVariable returned NULL.
C36_Witness ==
    /\ last.op = "drvUserCreate"
    /\ last.status = asynError
    /\ params # <<>>
    /\ AddressOf(last.raw).valid
    /\ SlotsAt(AddressOf(last.raw)) = {}
    /\ ExtractFunction(last.raw) \in DOMAIN functionTypes
    /\ last.reason = last.handle

\* C37: the size of a view made for a buffer of maxSize characters never
\* exceeds maxSize, whatever setSize and fillFrom calls were made on it, and
\* every terminating zero that Octet::terminate writes (in fillFrom, and in
\* readOctetData after the handler) goes to an index below maxSize: nothing
\* is written outside the caller's buffer.
C37_TerminatorInsideBuffer ==
    /\ arrayRef.size <= arrayRef.maxSize
    /\ arrayRef.outside = {}

\* Sound(a): the address object has at most one holder, was freed at most
\* once, is not freed while held and is freed once it has no holder.
Sound(a) ==
    /\ Cardinality(a.holders) <= 1
    /\ a.frees <= 1
    /\ a.holders # {} => a.frees = 0
    /\ a.holders = {} => a.frees = 1

\* C38: every DeviceAddress the parser returned has one owner and is freed
\* exactly once: a drvUserCreate call that reuses a variable or fails after
\* the parse returns with the address freed once and held by nobody; a call
\* that stores a variable leaves the address held by that variable alone
\* and not freed; ~Driver frees the address of every stored variable once.
\* Until then a stored variable's address is not freed, so nothing reads a
\* freed address.
C38_AddressHasOneOwnerAndIsFreedOnce ==
    /\ DOMAIN addresses = DOMAIN params
    /\ \A i \in DOMAIN addresses :
           /\ Sound(addresses[i])
           /\ addresses[i].holders =
                  IF destroyed THEN {} ELSE {<<"var", i>>}
    /\ (last.op = "drvUserCreate" /\ last.addr # NoAddress) =>
           /\ Sound(last.addr)
           /\ last.addr.holders =
                  IF last.created # NullVar THEN {<<"var", last.created>>}
                  ELSE {}
    /\ (last.op = "drvUserCreate" /\ last.addr = NoAddress) =>
           \/ ExtractFunction(last.raw) = <<>>
           \/ ~AddressOf(last.raw).valid

\* The driver was destroyed with two variables stored, each address freed
\* once.
C38_Witness ==
    /\ destroyed
    /\ Cardinality(DOMAIN addresses) = 2
    /\ \A i \in DOMAIN addresses : addresses[i].frees = 1

====
